---- MODULE Spec2Model ----
(***************************************************************************)
(* A model of trio/_core/_multierror.py: the MultiError exception tree,   *)
(* its normalising constructor, MultiError.filter (_filter_impl with its   *)
(* two passes filter_tree and push_tb_down), MultiError.catch              *)
(* (MultiErrorCatcher.__exit__), concat_tb, and the patched                *)
(* TracebackException initialiser and formatter.                           *)
(*                                                                         *)
(* Exception objects live in a heap and are identified by their index in   *)
(* it (Python's id()).  A traceback is the sequence of its frames,         *)
(* outermost first, as reached by following tb_next.                       *)
(***************************************************************************)
EXTENDS Integers, Sequences, FiniteSets, TLC

\* Bounds of the model.
MaxObjs == 5        \* exception objects ever allocated (atomic + MultiError)
MaxRaises == 1      \* times a MultiError is raised through a frame

\* Python's None, and the marker for "the handler raised".
None == 0
Raises == -1

VARIABLES
    heap,      \* sequence of exception objects; heap[i] is the object with id i
    nraise,    \* number of Raise steps taken so far
    pc,        \* "run" while the program still builds; "done" after the call
    last       \* record of the last operation: its arguments and what it returned

vars == <<heap, nraise, pc, last>>

Ids(h) == 1..Len(h)

\* isinstance(exc, BaseException)
IsException(h, exc) == exc \in Ids(h)

\* isinstance(exc, MultiError)
IsMulti(h, exc) == exc \in Ids(h) /\ h[exc].kind = "multi"

\* A frame record of a traceback: which object was being raised, and which
\* raise it was.
Frame(obj, n) == [obj |-> obj, n |-> n]

\* The frame of MultiErrorCatcher.__exit__, added by its "raise filtered_exc".
ExitFrame == [obj |-> None, n |-> None]

\* An atomic exception that was raised once and caught.
NewLeaf(id) ==
    [kind |-> "leaf", exceptions |-> <<>>, tb |-> <<Frame(id, None)>>,
     context |-> None, cause |-> None]

\* A freshly allocated MultiError: BaseException.__new__ + __init__.
NewMulti(exceptions) ==
    [kind |-> "multi", exceptions |-> exceptions, tb |-> <<>>,
     context |-> None, cause |-> None]

\* Elements of a sequence.
Range(s) == {s[i] : i \in 1..Len(s)}

\* The objects that are a child of some MultiError.
Children(h) == UNION {Range(h[m].exceptions) : m \in Ids(h)}

\* The objects that are the root of a tree.
Roots(h) == Ids(h) \ Children(h)

\* The roots, oldest first.
RootSeq(h) == SelectSeq([i \in Ids(h) |-> i], LAMBDA x : x \in Roots(h))

\* The atomic exceptions.
Atoms(h) == {a \in Ids(h) : h[a].kind = "leaf"}

\* The leaves of the tree at exc, left to right (depth-first pre-order).
RECURSIVE LeafSeq(_, _)
RECURSIVE LeafSeqOfList(_, _, _)
LeafSeq(h, exc) ==
    IF IsMulti(h, exc) THEN LeafSeqOfList(h, h[exc].exceptions, 1) ELSE <<exc>>
LeafSeqOfList(h, excs, i) ==
    IF i > Len(excs) THEN <<>>
    ELSE LeafSeq(h, excs[i]) \o LeafSeqOfList(h, excs, i + 1)

\* The MultiErrors of the tree at exc, exc included.
RECURSIVE MultisOf(_, _)
MultisOf(h, exc) ==
    IF IsMulti(h, exc)
    THEN {exc} \cup UNION {MultisOf(h, h[exc].exceptions[i]) : i \in 1..Len(h[exc].exceptions)}
    ELSE {}

\* MultiError with the singleton rule left out: a list of one is wrapped.
MultiError_wraps_singleton(h, exceptions) ==
    IF \E i \in 1..Len(exceptions) : ~IsException(h, exceptions[i])
    THEN [raised |-> "TypeError", ret |-> None, heap |-> h]
    ELSE [raised |-> "none", ret |-> Len(h) + 1,
          heap |-> Append(h, NewMulti(exceptions))]

\* MultiError refusing an empty list.
MultiError_rejects_empty(h, exceptions) ==
    IF \E i \in 1..Len(exceptions) : ~IsException(h, exceptions[i])
    THEN [raised |-> "TypeError", ret |-> None, heap |-> h]
    ELSE IF exceptions = <<>>
    THEN [raised |-> "ValueError", ret |-> None, heap |-> h]
    ELSE IF Len(exceptions) = 1
    THEN [raised |-> "none", ret |-> exceptions[1], heap |-> h]
    ELSE [raised |-> "none", ret |-> Len(h) + 1,
          heap |-> Append(h, NewMulti(exceptions))]

(***************************************************************************)
(* MultiError.__new__ and __init__                                         *)
(***************************************************************************)
MultiError(h, exceptions) ==
    IF \E i \in 1..Len(exceptions) : ~IsException(h, exceptions[i])
    THEN [raised |-> "TypeError", ret |-> None, heap |-> h]
    ELSE IF Len(exceptions) = 1
    THEN [raised |-> "none", ret |-> exceptions[1], heap |-> h]
    ELSE [raised |-> "none", ret |-> Len(h) + 1,
          heap |-> Append(h, NewMulti(exceptions))]

(***************************************************************************)
(* concat_tb and copy_tb.  A traceback object is a frame and a tb_next     *)
(* link; as a value it is the sequence of the frames reached from it.      *)
(***************************************************************************)
\* A new traceback object with base_tb's frame and the given tb_next.
copy_tb(base_tb, tb_next) == <<Head(base_tb)>> \o tb_next

\* head_tbs: the traceback objects reached from head by following tb_next.
head_tbs_of(head) == [k \in 1..Len(head) |-> SubSeq(head, k, Len(head))]

\* "for head_tb in reversed(head_tbs)"
RECURSIVE concat_tb_loop(_, _, _)
concat_tb_loop(head_tbs, k, current_head) ==
    IF k = 0 THEN current_head
    ELSE concat_tb_loop(head_tbs, k - 1, copy_tb(head_tbs[k], current_head))

concat_tb(head, tail) ==
    LET head_tbs == head_tbs_of(head)
    IN concat_tb_loop(head_tbs, Len(head_tbs), tail)

(***************************************************************************)
(* _filter_impl.  The state threaded through the recursion is              *)
(*   heap       the exception objects,                                     *)
(*   preserved  the set of ids of the MultiErrors preserved unchanged,     *)
(*   log        the exceptions the handler was called on, in call order,   *)
(*   failed     whether the handler raised (the call is then abandoned).   *)
(* A handler is a function from the atomic exceptions it is given to what  *)
(* it returns: None, the exception itself, another atomic exception, or    *)
(* Raises when it raises instead of returning.                             *)
(***************************************************************************)
\* filter_leaf calling the handler a second time to get the new exception.
filter_leaf_calls_handler_twice(handler, exc, st) ==
    LET new_exc == handler[exc]
        called == [st EXCEPT !.log = Append(Append(@, exc), exc)]
    IN IF new_exc = Raises
       THEN [ret |-> None, st |-> [called EXCEPT !.failed = TRUE]]
       ELSE IF new_exc /= None /\ new_exc /= exc
       THEN [ret |-> new_exc,
             st |-> [called EXCEPT !.heap[new_exc].context = exc]]
       ELSE [ret |-> new_exc, st |-> called]

\* filter_tree, the else branch: exc is not a MultiError.
filter_leaf(handler, exc, st) ==
    LET new_exc == handler[exc]
        called == [st EXCEPT !.log = Append(@, exc)]
    IN IF new_exc = Raises
       THEN [ret |-> None, st |-> [called EXCEPT !.failed = TRUE]]
       ELSE IF new_exc /= None /\ new_exc /= exc
       THEN [ret |-> new_exc,
             st |-> [called EXCEPT !.heap[new_exc].context = exc]]
       ELSE [ret |-> new_exc, st |-> called]

RECURSIVE filter_tree(_, _, _)
RECURSIVE filter_tree_loop(_, _, _, _)

\* "for child_exc in exc.exceptions", from the i-th child on;
\* acc = [new_exceptions, changed, st].
filter_tree_loop(handler, exceptions, i, acc) ==
    IF i > Len(exceptions) \/ acc.st.failed THEN acc
    ELSE LET child_exc == exceptions[i]
             r == filter_tree(handler, child_exc, acc.st)
             new_child_exc == r.ret
         IN filter_tree_loop(handler, exceptions, i + 1,
                [new_exceptions |-> IF new_child_exc /= None /\ ~r.st.failed
                                    THEN Append(acc.new_exceptions, new_child_exc)
                                    ELSE acc.new_exceptions,
                 changed |-> acc.changed \/ new_child_exc /= child_exc,
                 st |-> r.st])

\* filter_tree_result without the "changed" test: always rebuilds.
filter_tree_result_always_rebuilds(exc, acc) ==
    IF acc.new_exceptions = <<>> THEN [ret |-> None, st |-> acc.st]
    ELSE LET m == MultiError(acc.st.heap, acc.new_exceptions)
         IN [ret |-> m.ret, st |-> [acc.st EXCEPT !.heap = m.heap]]

\* filter_tree_result without the "if not new_exceptions" test.
filter_tree_result_no_empty_check(exc, acc) ==
    IF acc.changed
    THEN LET m == MultiError(acc.st.heap, acc.new_exceptions)
         IN [ret |-> m.ret, st |-> [acc.st EXCEPT !.heap = m.heap]]
    ELSE [ret |-> exc, st |-> [acc.st EXCEPT !.preserved = @ \cup {exc}]]

\* filter_tree_result allocating the new MultiError itself instead of calling
\* the normalising constructor.
filter_tree_result_bypasses_constructor(exc, acc) ==
    IF acc.new_exceptions = <<>> THEN [ret |-> None, st |-> acc.st]
    ELSE IF acc.changed
    THEN [ret |-> Len(acc.st.heap) + 1,
          st |-> [acc.st EXCEPT !.heap = Append(@, NewMulti(acc.new_exceptions))]]
    ELSE [ret |-> exc, st |-> [acc.st EXCEPT !.preserved = @ \cup {exc}]]

\* filter_tree after its loop: "if not new_exceptions ... elif changed ... else".
filter_tree_result(exc, acc) ==
    IF acc.new_exceptions = <<>> THEN [ret |-> None, st |-> acc.st]
    ELSE IF acc.changed
    THEN LET m == MultiError(acc.st.heap, acc.new_exceptions)
         IN [ret |-> m.ret, st |-> [acc.st EXCEPT !.heap = m.heap]]
    ELSE [ret |-> exc, st |-> [acc.st EXCEPT !.preserved = @ \cup {exc}]]

filter_tree(handler, exc, st) ==
    IF IsMulti(st.heap, exc)
    THEN LET acc == filter_tree_loop(handler, st.heap[exc].exceptions, 1,
                        [new_exceptions |-> <<>>, changed |-> FALSE, st |-> st])
         IN IF acc.st.failed THEN [ret |-> None, st |-> acc.st]
            ELSE filter_tree_result(exc, acc)
    ELSE filter_leaf(handler, exc, st)

RECURSIVE push_tb_down(_, _, _, _)
RECURSIVE push_tb_down_loop(_, _, _, _, _)

\* "for child_exc in exc.exceptions: push_tb_down(new_tb, child_exc, preserved)"
push_tb_down_loop(new_tb, exceptions, i, preserved, h) ==
    IF i > Len(exceptions) THEN h
    ELSE push_tb_down_loop(new_tb, exceptions, i + 1, preserved,
                           push_tb_down(new_tb, exceptions[i], preserved, h))

\* push_tb_down without the "if id(exc) in preserved: return" test.
push_tb_down_through_preserved(tb, exc, preserved, h) ==
    LET new_tb == concat_tb(tb, h[exc].tb)
    IN IF IsMulti(h, exc)
       THEN [push_tb_down_loop(new_tb, h[exc].exceptions, 1, preserved, h)
                EXCEPT ![exc].tb = <<>>]
       ELSE [h EXCEPT ![exc].tb = new_tb]

\* Returns the heap after the call.
push_tb_down(tb, exc, preserved, h) ==
    IF exc \in preserved THEN h
    ELSE LET new_tb == concat_tb(tb, h[exc].tb)
         IN IF IsMulti(h, exc)
            THEN [push_tb_down_loop(new_tb, h[exc].exceptions, 1, preserved, h)
                     EXCEPT ![exc].tb = <<>>]
            ELSE [h EXCEPT ![exc].tb = new_tb]

\* _filter_impl(handler, root_exc) on heap h, and MultiError.filter, which
\* only calls it.  A handler that raises leaves before the second pass.
_filter_impl(handler, root_exc, h) ==
    LET r == filter_tree(handler, root_exc,
                 [heap |-> h, preserved |-> {}, log |-> <<>>, failed |-> FALSE])
    IN IF r.st.failed
       THEN [ret |-> None, failed |-> TRUE, heap |-> r.st.heap,
             preserved |-> r.st.preserved, log |-> r.st.log]
       ELSE [ret |-> r.ret, failed |-> FALSE,
             heap |-> push_tb_down(<<>>, root_exc, r.st.preserved, r.st.heap),
             preserved |-> r.st.preserved, log |-> r.st.log]

filter(handler, root_exc, h) == _filter_impl(handler, root_exc, h)

(***************************************************************************)
(* MultiErrorCatcher.__exit__ (MultiError.catch(handler) only builds the   *)
(* catcher).  The result says what __exit__ returned ("None", "False",     *)
(* "True", or "raised"), which exception it raised (Raises: the handler's  *)
(* own exception), and what filter returned.                               *)
(***************************************************************************)
\* "raise filtered_exc" while exc is being handled: the interpreter sets
\* __context__ to exc and adds this frame to the traceback.
raise_stmt(h, filtered_exc, exc) ==
    [h EXCEPT ![filtered_exc].context = exc,
              ![filtered_exc].tb = <<ExitFrame>> \o @]

\* The raise without the finally clause that puts __context__ back.
raise_without_restoring_context(h, filtered_exc, exc) ==
    raise_stmt(h, filtered_exc, exc)

\* The try/finally around the raise: put the old __context__ back.
raise_restoring_context(h, filtered_exc, exc) ==
    LET old_context == h[filtered_exc].context
        raised == raise_stmt(h, filtered_exc, exc)
    IN [raised EXCEPT ![filtered_exc].context = old_context]

NoFilter(h) ==
    [ret |-> None, failed |-> FALSE, heap |-> h, preserved |-> {}, log |-> <<>>]

\* __exit__ without "if filtered_exc is exc: return False".
exit_without_identity_test(handler, exc, h) ==
    IF exc = None
    THEN [returned |-> "None", raised |-> None, heap |-> h,
          filtered |-> FALSE, f |-> NoFilter(h)]
    ELSE LET f == filter(handler, exc, h)
             filtered_exc == f.ret
         IN IF f.failed
            THEN [returned |-> "raised", raised |-> Raises, heap |-> f.heap,
                  filtered |-> TRUE, f |-> f]
            ELSE IF filtered_exc = None
            THEN [returned |-> "True", raised |-> None, heap |-> f.heap,
                  filtered |-> TRUE, f |-> f]
            ELSE [returned |-> "raised", raised |-> filtered_exc,
                  heap |-> raise_restoring_context(f.heap, filtered_exc, exc),
                  filtered |-> TRUE, f |-> f]

__exit__(handler, exc, h) ==
    IF exc = None
    THEN [returned |-> "None", raised |-> None, heap |-> h,
          filtered |-> FALSE, f |-> NoFilter(h)]
    ELSE LET f == filter(handler, exc, h)
             filtered_exc == f.ret
         IN IF f.failed
            THEN [returned |-> "raised", raised |-> Raises, heap |-> f.heap,
                  filtered |-> TRUE, f |-> f]
            ELSE IF filtered_exc = exc
            THEN [returned |-> "False", raised |-> None, heap |-> f.heap,
                  filtered |-> TRUE, f |-> f]
            ELSE IF filtered_exc = None
            THEN [returned |-> "True", raised |-> None, heap |-> f.heap,
                  filtered |-> TRUE, f |-> f]
            ELSE [returned |-> "raised", raised |-> filtered_exc,
                  heap |-> raise_restoring_context(f.heap, filtered_exc, exc),
                  filtered |-> TRUE, f |-> f]

\* What leaves a "with MultiError.catch(handler):" block whose body raised exc
\* (None: the body ended normally) once __exit__ gave x: the exception __exit__
\* raised, else nothing if it returned a true value, else exc.
Propagates(exc, x) ==
    IF x.returned = "raised" THEN x.raised
    ELSE IF x.returned = "True" THEN None
    ELSE exc

\* What a handler may return for the atomic exception exc.
Outcomes(h) == {None, Raises} \cup Atoms(h)

\* The handlers for the tree at root.  A handler that raises is not called
\* again: what it would return for the later leaves is left at None.
Handlers(h, root) ==
    LET leaves == LeafSeq(h, root)
    IN {handler \in [Range(leaves) -> Outcomes(h)] :
          \A i, j \in 1..Len(leaves) :
              i < j /\ handler[leaves[i]] = Raises => handler[leaves[j]] = None}

\* The program holds one tree, the last root, and besides it only atomic
\* exceptions (which its handler may return).
TheTree(h) == Len(h)
OneTree(h) == h /= <<>> /\ \A r \in Roots(h) \ {TheTree(h)} : ~IsMulti(h, r)

Init ==
    /\ heap = <<>>
    /\ nraise = 0
    /\ pc = "run"
    /\ last = [op |-> "init"]

\* An atomic exception is raised somewhere and caught.
NewAtom ==
    /\ pc = "run"
    /\ Len(heap) < MaxObjs
    /\ heap' = Append(heap, NewLeaf(Len(heap) + 1))
    /\ last' = [op |-> "atom"]
    /\ UNCHANGED <<nraise, pc>>

\* The caller calls MultiError(exceptions) on the j trees it obtained last
\* (the failures of its child tasks, in order); junk: the list ends with an
\* object that is no exception.  A constructor that raised ends the program.
Build ==
    /\ pc = "run"
    /\ \E roots \in {RootSeq(heap)} :
       \E j \in 0..Len(roots), junk \in BOOLEAN :
       \E exceptions \in {SubSeq(roots, Len(roots) - j + 1, Len(roots))
                             \o (IF junk THEN <<None>> ELSE <<>>)} :
       \E r \in {MultiError(heap, exceptions)} :
          /\ Len(r.heap) <= MaxObjs
          /\ heap' = r.heap
          /\ pc' = IF r.raised = "none" THEN "run" ELSE "done"
          /\ last' = [op |-> "build", exceptions |-> exceptions, pre |-> heap,
                      raised |-> r.raised, ret |-> r.ret]
    /\ UNCHANGED nraise

\* The MultiError just built is raised and propagates through one more frame
\* (before the caller builds anything else).
Raise ==
    /\ pc = "run"
    /\ nraise < MaxRaises
    /\ LET m == Len(heap)
       IN /\ IsMulti(heap, m)
          /\ heap' = [heap EXCEPT ![m].tb = <<Frame(m, Len(@) + 1)>> \o @]
    /\ nraise' = nraise + 1
    /\ last' = [op |-> "raise"]
    /\ UNCHANGED pc

\* The caller calls MultiError.filter(handler, root_exc) on its tree.
Filter ==
    /\ pc = "run"
    /\ OneTree(heap)
    /\ \E root_exc \in {TheTree(heap)} :
       \E handler \in Handlers(heap, root_exc) :
       \E f \in {filter(handler, root_exc, heap)} :
          /\ heap' = f.heap
          /\ last' = [op |-> "filter", handler |-> handler, root |-> root_exc,
                      pre |-> heap, ret |-> f.ret, failed |-> f.failed,
                      preserved |-> f.preserved, log |-> f.log]
    /\ pc' = "done"
    /\ UNCHANGED nraise

\* A block guarded by MultiError.catch(handler) ends: normally (exc = None) or
\* with the program's tree propagating out of it.
CatchExit ==
    /\ pc = "run"
    /\ OneTree(heap)
    /\ \E exc \in {None, TheTree(heap)} :
       \E handler \in (IF exc = None THEN {<<>>} ELSE Handlers(heap, exc)) :
       \E x \in {__exit__(handler, exc, heap)} :
          /\ heap' = x.heap
          /\ last' = [op |-> "catch", handler |-> handler, root |-> exc,
                      pre |-> heap, ret |-> x.f.ret, failed |-> x.f.failed,
                      preserved |-> x.f.preserved, log |-> x.f.log,
                      filtered |-> x.filtered, mid |-> x.f.heap,
                      returned |-> x.returned, raised |-> x.raised,
                      out |-> Propagates(exc, x)]
    /\ pc' = "done"
    /\ UNCHANGED nraise

Next == NewAtom \/ Build \/ Raise \/ Filter \/ CatchExit

Spec == Init /\ [][Next]_vars

(***************************************************************************)
(* Rendering: traceback.TracebackException with the patched __init__ and   *)
(* format.  A TracebackException is a record: the exception it captured,   *)
(* the TracebackExceptions of its cause and context (NoTE when there is    *)
(* none), its embedded TracebackExceptions and the _seen set as the        *)
(* constructor left it.  The original __init__ is the recursive one of     *)
(* CPython's traceback module: it adds the exception to _seen, then        *)
(* captures the cause and the context unless they are in _seen, handing    *)
(* the same set object down.                                               *)
(***************************************************************************)
MaxRenderObjs == 4
MaxLinks == 2

exc_key(exc) == exc

\* _seen=None, and _seen=<a set>.
NoSeen == [none |-> TRUE, ids |-> {}]
SeenSet(ids) == [none |-> FALSE, ids |-> ids]

NoTE == [exc |-> None]

\* One yielded chunk of the output: the stack and the exception line of exc,
\* one of the two chaining messages, or the header of embedded exception n.
Line(kind, exc, n) == [kind |-> kind, exc |-> exc, n |-> n, indent |-> 0]

\* textwrap.indent(line, " " * 2) over the lines of an embedded exception.
indent(lines) == [k \in 1..Len(lines) |-> [lines[k] EXCEPT !.indent = @ + 2]]

\* The set the "exc_key(exc) not in _seen" test of the patched __init__ reads
\* from a set that was made before the original __init__ ran.
seen_for_embedded_made_before_init(_seen, seen_after_init) == seen_after_init

\* "seen_was_none = _seen is None; if _seen is None: _seen = set()", after the
\* original __init__ returned: a set that was passed in has been filled by the
\* original __init__, a set made here is empty.
seen_for_embedded(_seen, seen_after_init) ==
    IF _seen.none THEN {} ELSE seen_after_init

RECURSIVE traceback_exception_init(_, _, _)
RECURSIVE traceback_exception_original_init(_, _, _)
RECURSIVE embedded_loop(_, _, _, _, _)

traceback_exception_original_init(h, exc_value, _seen) ==
    LET seen0 == (IF _seen.none THEN {} ELSE _seen.ids) \cup {exc_key(exc_value)}
        c == h[exc_value].cause
        cause == IF c /= None /\ exc_key(c) \notin seen0
                 THEN traceback_exception_init(h, c, SeenSet(seen0))
                 ELSE NoTE
        seen1 == IF cause.exc = None THEN seen0 ELSE cause.seen
        x == h[exc_value].context
        context == IF x /= None /\ exc_key(x) \notin seen1
                   THEN traceback_exception_init(h, x, SeenSet(seen1))
                   ELSE NoTE
        seen2 == IF context.exc = None THEN seen1 ELSE context.seen
    IN [exc |-> exc_value, cause |-> cause, context |-> context,
        suppress_context |-> c /= None, seen |-> seen2, embedded |-> <<>>]

\* "for exc in exc_value.exceptions: if exc_key(exc) not in _seen: ..."
embedded_loop(h, exceptions, i, _seen, seen_was_none) ==
    IF i > Len(exceptions) THEN <<>>
    ELSE (IF exc_key(exceptions[i]) \notin _seen
          THEN <<traceback_exception_init(h, exceptions[i],
                     IF seen_was_none THEN NoSeen ELSE SeenSet(_seen))>>
          ELSE <<>>)
         \o embedded_loop(h, exceptions, i + 1, _seen, seen_was_none)

traceback_exception_init(h, exc_value, _seen) ==
    LET self == traceback_exception_original_init(h, exc_value, _seen)
        seen_was_none == _seen.none
        seen == seen_for_embedded(_seen, self.seen)
    IN IF IsMulti(h, exc_value)
       THEN [self EXCEPT !.embedded =
                embedded_loop(h, h[exc_value].exceptions, 1, seen, seen_was_none)]
       ELSE self

RECURSIVE traceback_exception_format(_)
RECURSIVE traceback_exception_original_format(_)
RECURSIVE format_embedded(_, _)

\* TracebackException.format with chain=True.
traceback_exception_original_format(self) ==
    (IF self.cause.exc /= None
     THEN traceback_exception_format(self.cause)
              \o <<Line("cause_message", None, None)>>
     ELSE IF self.context.exc /= None /\ ~self.suppress_context
     THEN traceback_exception_format(self.context)
              \o <<Line("context_message", None, None)>>
     ELSE <<>>)
    \o <<Line("exception", self.exc, None)>>

\* "for i, exc in enumerate(self.embedded)": the header of number i + 1, then
\* the indented lines of exc.format.
format_embedded(embedded, k) ==
    IF k > Len(embedded) THEN <<>>
    ELSE <<Line("embedded", None, k)>>
         \o indent(traceback_exception_format(embedded[k]))
         \o format_embedded(embedded, k + 1)

traceback_exception_format(self) ==
    traceback_exception_original_format(self) \o format_embedded(self.embedded, 1)

\* "".join(TracebackException.from_exception(exc).format()), as a list.
Rendering(h, exc) ==
    traceback_exception_format(traceback_exception_init(h, exc, NoSeen))

\* The number of __cause__ and __context__ links set so far.
Links(h) ==
    Cardinality({x \in Ids(h) : h[x].cause /= None})
        + Cardinality({x \in Ids(h) : h[x].context /= None})

\* An atomic exception is caught.
Caught ==
    /\ pc = "run"
    /\ Len(heap) < MaxRenderObjs
    /\ heap' = Append(heap, NewLeaf(Len(heap) + 1))
    /\ UNCHANGED <<nraise, pc, last>>

\* MultiError(exceptions) on the j trees obtained last, the failures of two
\* child tasks or more.
Group ==
    /\ pc = "run"
    /\ \E roots \in {RootSeq(heap)} :
       \E j \in 2..Len(roots) :
       \E r \in {MultiError(heap, SubSeq(roots, Len(roots) - j + 1, Len(roots)))} :
          /\ Len(r.heap) <= MaxRenderObjs
          /\ heap' = r.heap
    /\ UNCHANGED <<nraise, pc, last>>

\* "raise x from cause" while "context" is being handled, x the newest
\* exception: the language sets x.__cause__ and x.__context__.
RaiseFrom ==
    /\ pc = "run"
    /\ heap /= <<>>
    /\ \E x \in {Len(heap)} :
       \E cause, context \in {None} \cup (Ids(heap) \ {x}) :
          /\ heap[x].cause = None /\ heap[x].context = None
          /\ cause /= None \/ context /= None
          /\ heap' = [heap EXCEPT ![x].cause = cause, ![x].context = context]
          /\ Links(heap') <= MaxLinks
    /\ UNCHANGED <<nraise, pc, last>>

\* The newest exception reaches the top level and is printed.
Render ==
    /\ pc = "run"
    /\ heap /= <<>>
    /\ \E root \in {Len(heap)} :
       \E out \in {Rendering(heap, root)} :
          last' = [op |-> "render", root |-> root, pre |-> heap, out |-> out]
    /\ pc' = "done"
    /\ UNCHANGED <<heap, nraise>>

NextRender == Caught \/ Group \/ RaiseFrom \/ Render

RenderSpec == Init /\ [][NextRender]_vars
(***************************************************************************)
(* Notions the properties are stated with.                                 *)
(***************************************************************************)
\* The last operation was a call of MultiError.filter that returned (alone, or
\* from __exit__): last.mid is the heap when it returned.
Filtered ==
    /\ last.op \in {"filter", "catch"}
    /\ last.root /= None
    /\ ~last.failed

AfterFilter == IF last.op = "catch" THEN last.mid ELSE heap

\* The traceback of each leaf of the tree at exc as the user sees it: the
\* concatenation of the tracebacks met from the root down to the leaf; one
\* entry per leaf, left to right.
RECURSIVE LeafChains(_, _, _)
RECURSIVE LeafChainsOfList(_, _, _, _)
LeafChains(h, exc, tb) ==
    IF IsMulti(h, exc)
    THEN LeafChainsOfList(h, h[exc].exceptions, 1, tb \o h[exc].tb)
    ELSE <<tb \o h[exc].tb>>
LeafChainsOfList(h, excs, i, tb) ==
    IF i > Len(excs) THEN <<>>
    ELSE LeafChains(h, excs[i], tb) \o LeafChainsOfList(h, excs, i + 1, tb)

\* The positions, in the leaf order of the input tree, of the leaves for which
\* the handler returned an exception.
Survivors ==
    LET leaves == LeafSeq(last.pre, last.root)
    IN SelectSeq([i \in 1..Len(leaves) |-> i],
                 LAMBDA i : last.handler[leaves[i]] /= None)

\* The leaves of the filtered tree, left to right; <<>> if filter returned None.
ResultLeaves ==
    IF last.ret = None THEN <<>> ELSE LeafSeq(AfterFilter, last.ret)

\* The handler returned every leaf it was given.
IdentityHandler ==
    \A x \in DOMAIN last.handler : last.handler[x] = x

\* No MultiError of the tree at exc is empty.
NoEmptyMulti(h, exc) == \A m \in MultisOf(h, exc) : h[m].exceptions /= <<>>

\* Every MultiError of the tree at exc has at least two children.
Normalized(h, exc) == \A m \in MultisOf(h, exc) : Len(h[m].exceptions) >= 2

(***************************************************************************)
(* C1.  filter keeps the end-to-end traceback of every leaf.               *)
(***************************************************************************)
\* C1 (as claimed, for the leaves kept by identity): after filter returns, the
\* root-to-leaf concatenation of tracebacks of every leaf the handler returned
\* unchanged is the frame sequence it was in the input tree before the call,
\* also for a leaf inside a MultiError that was preserved under an ancestor
\* that was rebuilt or collapsed away.
C1_EndToEndChainKept ==
    (Filtered /\ last.op = "filter" /\ last.ret /= None) =>
        LET leaves == LeafSeq(last.pre, last.root)
            before == LeafChains(last.pre, last.root, <<>>)
            after == LeafChains(heap, last.ret, <<>>)
            surv == Survivors
        IN \A k \in 1..Len(surv) :
              last.handler[leaves[surv[k]]] = leaves[surv[k]]
                  => /\ k <= Len(after)
                     /\ after[k] = before[surv[k]]

\* C1's case reached: a leaf kept inside a MultiError that was preserved under
\* a root that was raised through a frame and then rebuilt or collapsed away.
C1_PreservedUnderRebuilt ==
    /\ Filtered /\ last.op = "filter" /\ last.ret /= None
    /\ last.root \notin last.preserved
    /\ last.pre[last.root].tb /= <<>>
    /\ \E m \in last.preserved : m \in MultisOf(heap, last.ret)

(***************************************************************************)
(* C2.  Nothing is rebuilt when nothing changes.                           *)
(***************************************************************************)
\* The MultiError m of the input tree is part of the filtered tree, as the
\* same object with the same children.
SameObjectInResult(m) ==
    /\ last.ret /= None
    /\ m \in MultisOf(AfterFilter, last.ret)
    /\ AfterFilter[m].exceptions = last.pre[m].exceptions

\* No leaf of the tree at m was dropped or replaced.
LeavesUnchanged(m) ==
    \A x \in Range(LeafSeq(last.pre, m)) : last.handler[x] = x

\* C2 (as claimed): if the handler returns its input for every leaf, filter
\* returns the identical object T and builds no node; and every MultiError of T
\* none of whose descendant leaves was dropped or replaced is in the filtered
\* tree as the identical object.
C2_IdentityAsClaimed ==
    Filtered =>
        /\ IdentityHandler =>
              /\ last.ret = last.root
              /\ Len(AfterFilter) = Len(last.pre)
        /\ \A m \in MultisOf(last.pre, last.root) :
              LeavesUnchanged(m) => SameObjectInResult(m)

\* C2 (amended): the same, for a tree T (or a MultiError m of T) that holds no
\* empty MultiError: filter returns None for an empty MultiError, whatever the
\* handler, so a tree that holds one is rebuilt around it.
C2_IdentityWithoutEmpty ==
    Filtered =>
        /\ (IdentityHandler /\ NoEmptyMulti(last.pre, last.root)) =>
              /\ last.ret = last.root
              /\ Len(AfterFilter) = Len(last.pre)
        /\ \A m \in MultisOf(last.pre, last.root) :
              (LeavesUnchanged(m) /\ NoEmptyMulti(last.pre, m))
                  => SameObjectInResult(m)

\* C2's case reached: a nested MultiError with unchanged leaves is kept as the
\* same object although a sibling leaf was replaced and the root rebuilt.
C2_SubtreeKeptUnderRebuiltRoot ==
    /\ Filtered /\ last.op = "filter"
    /\ last.ret \notin Ids(last.pre) \cup {None}
    /\ \E m \in MultisOf(last.pre, last.root) \ {last.root} :
          /\ LeavesUnchanged(m) /\ NoEmptyMulti(last.pre, m)
          /\ m \in Range(heap[last.ret].exceptions)

(***************************************************************************)
(* C3.  What leaves a block guarded by MultiError.catch.                   *)
(***************************************************************************)
\* C3: on normal exit the handler is not called and nothing is raised; on exit
\* with exc, once filter has returned, its result alone decides: exc itself:
\* __exit__ returns False and raises nothing, so exc goes on propagating; None:
\* __exit__ returns True and the block ends normally; otherwise __exit__
\* raises the result, and that is what leaves the block.
C3_ExitDecidedByFilterResult ==
    last.op = "catch" =>
        /\ last.root = None =>
              /\ ~last.filtered /\ last.log = <<>>
              /\ last.returned = "None" /\ last.raised = None
              /\ last.out = None
              /\ heap = last.pre
        /\ (last.root /= None /\ ~last.failed) =>
              /\ last.filtered
              /\ last.ret = last.root =>
                    /\ last.returned = "False" /\ last.raised = None
                    /\ last.out = last.root
              /\ last.ret = None =>
                    /\ last.returned = "True" /\ last.raised = None
                    /\ last.out = None
              /\ last.ret \notin {last.root, None} =>
                    /\ last.returned = "raised" /\ last.raised = last.ret
                    /\ last.out = last.ret

\* C3's case reached: the tree leaves the block replaced by a rebuilt tree.
C3_ReplacementPropagates ==
    /\ last.op = "catch" /\ last.root /= None /\ ~last.failed
    /\ last.out \notin Ids(last.pre) \cup {None}
    /\ IsMulti(heap, last.out)

(***************************************************************************)
(* C4, C5.  The constructor.                                               *)
(***************************************************************************)
\* C4: MultiError of a list of exactly one exception returns that exception
\* and allocates nothing; of two or more, it returns a new MultiError whose
\* children are those exceptions in the given order.
C4_BuildNormalizes ==
    (last.op = "build" /\ \A i \in 1..Len(last.exceptions) :
                             IsException(last.pre, last.exceptions[i])) =>
        /\ last.raised = "none"
        /\ Len(last.exceptions) = 1 =>
              /\ last.ret = last.exceptions[1]
              /\ heap = last.pre
        /\ Len(last.exceptions) >= 2 =>
              /\ last.ret \notin Ids(last.pre)
              /\ IsMulti(heap, last.ret)
              /\ heap[last.ret].exceptions = last.exceptions
              /\ SubSeq(heap, 1, Len(last.pre)) = last.pre

\* C4's case reached: a list holding one MultiError gave back that MultiError.
C4_SingletonReturned ==
    /\ last.op = "build" /\ last.raised = "none"
    /\ Len(last.exceptions) = 1
    /\ IsMulti(heap, last.ret)
    /\ Len(heap[last.ret].exceptions) >= 2

\* C5 (as claimed): MultiError of an empty list fails and returns no node, and
\* no MultiError without children exists.
C5_EmptyBuildFails ==
    /\ (last.op = "build" /\ last.exceptions = <<>>) =>
          /\ last.raised /= "none"
          /\ last.ret = None
    /\ \A m \in Ids(heap) : IsMulti(heap, m) => heap[m].exceptions /= <<>>

\* C5 (amended): MultiError of an empty list raises nothing: it returns a new
\* MultiError that has no children.
C5_EmptyBuildReturnsEmptyMulti ==
    (last.op = "build" /\ last.exceptions = <<>>) =>
        /\ last.raised = "none"
        /\ last.ret \notin Ids(last.pre)
        /\ IsMulti(heap, last.ret)
        /\ heap[last.ret].exceptions = <<>>

\* C5's case reached: an empty MultiError was built.
C5_EmptyMultiBuilt ==
    /\ last.op = "build" /\ last.exceptions = <<>>
    /\ IsMulti(heap, last.ret)

(***************************************************************************)
(* C6, C7, C10.  The tree filter returns.                                  *)
(***************************************************************************)
\* C6: if the handler returns None for every leaf, filter returns None.
C6_AllDroppedGivesNone ==
    (Filtered /\ \A x \in DOMAIN last.handler : last.handler[x] = None) =>
        last.ret = None

\* C6's case reached: a nested tree of three leaves, all dropped.
C6_NestedAllDropped ==
    /\ Filtered /\ last.op = "filter"
    /\ \A x \in DOMAIN last.handler : last.handler[x] = None
    /\ Len(LeafSeq(last.pre, last.root)) >= 3
    /\ Cardinality(MultisOf(last.pre, last.root)) >= 2
    /\ last.ret = None

\* C7: during a call of filter in which the handler does not raise, the handler
\* is called on the leaves of the input tree, each exactly once, in depth-first
\* left-to-right order, and on nothing else.
C7_HandlerCalledOncePerLeafInOrder ==
    Filtered => last.log = LeafSeq(last.pre, last.root)

\* C7's case reached: a nested tree whose handler drops, keeps and replaces.
C7_NestedMixedHandler ==
    /\ Filtered /\ last.op = "filter"
    /\ Cardinality(MultisOf(last.pre, last.root)) >= 2
    /\ Len(last.log) >= 3
    /\ \E x, y, z \in DOMAIN last.handler :
          /\ last.handler[x] = None
          /\ last.handler[y] = y
          /\ last.handler[z] \notin {None, z}

\* What the handler returned, in the leaf order of the input tree, dropped
\* leaves left out.
HandlerResults ==
    LET leaves == LeafSeq(last.pre, last.root)
        surv == Survivors
    IN [k \in 1..Len(surv) |-> last.handler[leaves[surv[k]]]]

\* C10: for an input tree whose MultiErrors all have at least two children,
\* filter returns None or a tree whose MultiErrors all have at least two
\* children, and the leaves of the result, left to right, are the exceptions
\* the handler returned, in the leaf order of the input.
C10_ResultNormalizedAndComplete ==
    (Filtered /\ Normalized(last.pre, last.root)) =>
        /\ last.ret /= None => Normalized(AfterFilter, last.ret)
        /\ ResultLeaves = HandlerResults
        /\ last.ret = None <=> HandlerResults = <<>>

\* C10's case reached: MultiError[MultiError[A, B], C] with A and C dropped
\* gives the bare leaf B.
C10_CollapsesToBareLeaf ==
    /\ Filtered /\ last.op = "filter"
    /\ Len(last.pre[last.root].exceptions) = 2
    /\ LET inner == last.pre[last.root].exceptions[1]
           C == last.pre[last.root].exceptions[2]
       IN /\ IsMulti(last.pre, inner) /\ ~IsMulti(last.pre, C)
          /\ Len(last.pre[inner].exceptions) = 2
          /\ LET A == last.pre[inner].exceptions[1]
                 B == last.pre[inner].exceptions[2]
             IN /\ ~IsMulti(last.pre, A) /\ ~IsMulti(last.pre, B)
                /\ last.handler[A] = None /\ last.handler[C] = None
                /\ last.handler[B] = B
                /\ last.ret = B

(***************************************************************************)
(* C8.  __context__ after the catcher raised a replacement.                *)
(***************************************************************************)
\* __exit__ raised what filter returned.
RaisedReplacement ==
    /\ last.op = "catch"
    /\ last.returned = "raised" /\ last.raised /= Raises

\* The handler replaced the leaf x by another exception.
Replaced(x) == last.handler[x] \notin {None, x}

\* The last leaf, in the leaf order of the input tree, that x2 replaced.
LastReplacedBy(x2) ==
    LET leaves == LeafSeq(last.pre, last.root)
        at == {i \in 1..Len(leaves) :
                  Replaced(leaves[i]) /\ last.handler[leaves[i]] = x2}
    IN leaves[CHOOSE i \in at : \A j \in at : j <= i]

\* The scenario MultiError[X, Y] with X replaced by X2, not of the tree, and Y
\* kept.
ScenarioXY(X, Y, X2) ==
    /\ last.root /= None
    /\ last.pre[last.root].exceptions = <<X, Y>>
    /\ ~IsMulti(last.pre, X) /\ ~IsMulti(last.pre, Y)
    /\ X2 \in Atoms(last.pre) \ {X, Y}
    /\ last.handler[X] = X2 /\ last.handler[Y] = Y

\* C8 (as claimed): when __exit__ raises a replacement R, R's __context__ is
\* afterwards what it was when filter returned, and every X2 that replaced a
\* leaf X has __context__ X; in the scenario, MultiError[X2, Y] leaves the
\* block with X2.__context__ = X.
C8_ContextAsClaimed ==
    RaisedReplacement =>
        /\ heap[last.raised].context = last.mid[last.raised].context
        /\ \A x \in DOMAIN last.handler :
              Replaced(x) => heap[last.handler[x]].context = x

\* C8 (amended): when __exit__ raises a replacement R, R's __context__ is
\* afterwards what it was when filter returned, and every X2 that replaced a
\* leaf has as __context__ the leaf it replaced, the last one in leaf order
\* if the handler returned X2 for several leaves; in the scenario,
\* MultiError[X2, Y] leaves the block with X2.__context__ = X.
C8_ContextIsLastReplacedLeaf ==
    RaisedReplacement =>
        /\ heap[last.raised].context = last.mid[last.raised].context
        /\ \A x \in DOMAIN last.handler :
              Replaced(x) =>
                  heap[last.handler[x]].context = LastReplacedBy(last.handler[x])
        /\ \A X, Y, X2 \in Atoms(last.pre) :
              ScenarioXY(X, Y, X2) =>
                  /\ IsMulti(heap, last.out)
                  /\ heap[last.out].exceptions = <<X2, Y>>
                  /\ heap[X2].context = X
                  /\ heap[last.out].context = None

\* C8's case reached: the scenario, with the rebuilt tree raised by __exit__.
C8_ScenarioRaised ==
    /\ RaisedReplacement
    /\ \E X, Y, X2 \in Atoms(last.pre) :
          /\ ScenarioXY(X, Y, X2)
          /\ heap[last.out].exceptions = <<X2, Y>>
          /\ heap[X2].context = X

(***************************************************************************)
(* C9.  The rendering of a root MultiError.                                *)
(***************************************************************************)
RenderedMulti == last.op = "render" /\ IsMulti(last.pre, last.root)

\* Positions where exception E is described in full.
FullDescriptions(E) ==
    {p \in 1..Len(last.out) :
        last.out[p].kind = "exception" /\ last.out[p].exc = E}

\* Positions of the root's own description: what precedes it is the
\* rendering of the root's cause or context.
RootPos == {p \in FullDescriptions(last.root) : last.out[p].indent = 0}

\* Positions of the headers of the root's own embedded exceptions.
Headers == {p \in 1..Len(last.out) :
               /\ last.out[p].kind = "embedded" /\ last.out[p].indent = 0
               /\ \A r \in RootPos : r < p}

\* Position of the k-th header; past the last one, the end of the output.
HeaderPos(k) ==
    IF k > Cardinality(Headers) THEN Len(last.out) + 1
    ELSE CHOOSE p \in Headers : Cardinality({q \in Headers : q <= p}) = k

Block(k) == SubSeq(last.out, HeaderPos(k) + 1, HeaderPos(k + 1) - 1)

\* The root's description comes before every block, and there is one block
\* per child, numbered from 1 in the order of the children, holding the
\* description of that child.
RootFirstThenBlocks ==
    LET children == last.pre[last.root].exceptions
    IN /\ Cardinality(Headers) = Len(children)
       /\ Cardinality(RootPos) = 1
       /\ \A p \in RootPos : \A q \in p + 1..Len(last.out) :
             last.out[q].indent = 0 => q \in Headers
       /\ \A k \in 1..Len(children) :
             /\ last.out[HeaderPos(k)].n = k
             /\ \E i \in 1..Len(Block(k)) :
                   /\ Block(k)[i].kind = "exception"
                   /\ Block(k)[i].exc = children[k]
                   /\ Block(k)[i].indent = 2

\* Leaf E and leaf F are children of the root and E is the cause of F.
CauseIsSibling(E, F) ==
    LET children == Range(last.pre[last.root].exceptions)
    IN /\ E \in children /\ F \in children /\ E /= F
       /\ ~IsMulti(last.pre, E) /\ ~IsMulti(last.pre, F)
       /\ last.pre[F].cause = E

\* C9 (as claimed): the rendering of a root MultiError has the root's
\* description first and then one numbered block per child in order, and
\* every atomic exception is described in full at most once, a child of the
\* root exactly once.
C9_DescribedOnce ==
    RenderedMulti =>
        /\ RootFirstThenBlocks
        /\ \A E \in Atoms(last.pre) :
              /\ Cardinality(FullDescriptions(E)) <= 1
              /\ E \in Range(last.pre[last.root].exceptions)
                    => Cardinality(FullDescriptions(E)) = 1

\* C9 (amended): the rendering of a root MultiError has the root's
\* description before every block and one numbered block per child in order,
\* each block being the indented rendering of that child on its own; where
\* leaf E is a child of the root and the cause of sibling leaf F, E is
\* described in full in its own block and once more in F's block, right
\* before the cause message and F.
C9_DescribedInEveryBlock ==
    RenderedMulti =>
        LET children == last.pre[last.root].exceptions
        IN /\ RootFirstThenBlocks
           /\ \A k \in 1..Len(children) :
                 Block(k) = indent(Rendering(last.pre, children[k]))
           /\ \A k \in 1..Len(children), E \in Atoms(last.pre) :
                 CauseIsSibling(E, children[k]) =>
                    /\ Len(Block(k)) >= 3
                    /\ SubSeq(Block(k), Len(Block(k)) - 2, Len(Block(k))) =
                          indent(<<Line("exception", E, None),
                                   Line("cause_message", None, None),
                                   Line("exception", children[k], None)>>)
                    /\ Cardinality(FullDescriptions(E)) >= 2

\* C9's case reached: MultiError[E, F] with F raised from E was rendered, and
\* E is described in its own block and in F's.
C9_CauseSiblingRendered ==
    /\ RenderedMulti
    /\ \E E, F \in Atoms(last.pre) :
          /\ last.pre[last.root].exceptions = <<E, F>>
          /\ CauseIsSibling(E, F)
          /\ Cardinality(FullDescriptions(E)) = 2

(***************************************************************************)
(* C11.  What filter changes in the objects of its input tree.             *)
(***************************************************************************)
\* filter was called on a tree (and returned, or the handler raised).
FilterCalled == last.op \in {"filter", "catch"} /\ last.root /= None

\* The objects of the tree at exc: its MultiErrors and its leaves.
TreeNodes(h, exc) == MultisOf(h, exc) \cup Range(LeafSeq(h, exc))

\* The objects of the input tree that are a preserved MultiError or below one.
UnderPreserved ==
    UNION {TreeNodes(last.pre, m) : m \in last.preserved \cap Ids(last.pre)}

\* The calls of the handler, as positions of last.log, that returned x as the
\* replacement of another leaf.
ReturnedFor(x) ==
    {i \in 1..Len(last.log) :
        last.handler[last.log[i]] = x /\ last.log[i] /= x}

\* children, __cause__ and kind of object x are what they were before the call.
ShapeKept(x) ==
    /\ AfterFilter[x].kind = last.pre[x].kind
    /\ AfterFilter[x].exceptions = last.pre[x].exceptions
    /\ AfterFilter[x].cause = last.pre[x].cause

\* The traceback of x changed only if x is neither preserved nor below a
\* preserved MultiError.
ChainTouchedOnlyOutsidePreserved(x) ==
    AfterFilter[x].tb /= last.pre[x].tb => x \notin UnderPreserved

\* C11 (as claimed): filter leaves every object of its input tree with the
\* same children, the same __context__ and the same __cause__, whatever the
\* handler returns; it changes only tracebacks, and none of a preserved
\* MultiError or of an object below one.
C11_OnlyChainsChange ==
    FilterCalled =>
        \A x \in TreeNodes(last.pre, last.root) :
            /\ ShapeKept(x)
            /\ AfterFilter[x].context = last.pre[x].context
            /\ ChainTouchedOnlyOutsidePreserved(x)

\* C11 (amended): filter leaves every object of its input tree with the same
\* children and the same __cause__; the __context__ of an object of the tree
\* is unchanged unless the handler returned that object as the replacement of
\* another leaf, and is then the last such leaf; tracebacks change only on
\* objects that are neither preserved nor below a preserved MultiError.
C11_ChainsAndContextOfReturnedMember ==
    FilterCalled =>
        \A x \in TreeNodes(last.pre, last.root) :
            /\ ShapeKept(x)
            /\ AfterFilter[x].context =
                 (IF ReturnedFor(x) = {} THEN last.pre[x].context
                  ELSE last.log[CHOOSE i \in ReturnedFor(x) :
                                    \A j \in ReturnedFor(x) : j <= i])
            /\ ChainTouchedOnlyOutsidePreserved(x)

\* C11's case reached: filter returned after the handler gave, for a leaf of
\* the tree, a leaf of a preserved MultiError of the same tree; that leaf's
\* __context__ changed, its traceback did not, and the traceback of an
\* object outside the preserved MultiError did.
C11_MemberOfPreservedReturned ==
    /\ FilterCalled /\ ~last.failed
    /\ \E x, y \in Range(LeafSeq(last.pre, last.root)) :
          /\ x /= y
          /\ last.handler[y] = x
          /\ x \in UnderPreserved
          /\ AfterFilter[x].context = y
          /\ last.pre[x].context /= y
          /\ AfterFilter[x].tb = last.pre[x].tb
          /\ AfterFilter[y].tb /= last.pre[y].tb

====
